---- MODULE Spec2Model ----
(***************************************************************************)
(* A model of ractor_cluster's TCP session triad (net/session.rs):        *)
(* the Session supervisor, the SessionWriter that frames outbound         *)
(* messages, the SessionReader that runs the WaitForObject / ReadObject   *)
(* loop over read_n_bytes, and the environment they talk to (the client   *)
(* that sends, the peer that writes and closes the inbound stream, the    *)
(* socket's errors).                                                       *)
(***************************************************************************)
EXTENDS Integers, Sequences, FiniteSets, TLC

\* ------------------------------------------------------------------ bounds
\* How many Send requests the client issues: in the outbound specification, and
\* in the others.
MaxSends == 3
FewSends == 1
\* How many items the peer writes on the inbound stream: in the inbound
\* specification, and in the others.
MaxPeerFrames == 2
FewPeerFrames == 1
\* How many non-EOF read errors the socket raises.
MaxReadErrs == 1
\* How many bytes a failing write_all may have put on the wire before failing.
MaxPartial == 1
\* How many supervision events arrive from actors that are not the two children.
MaxUnknownEvents == 1

\* --------------------------------------------------------------- constants
\* The length prefix is 8 bytes (a u64 in big endian).
PrefixLen == 8
\* First byte of a big-endian u64 from which the value exceeds isize::MAX.
SignByte == 128
\* Stand-in for every length of 2^24 bytes or more: more than the peer ever sends.
HugeLen == 16777216

Units == {"S", "R", "W"}
Children == {"R", "W"}

\* NetworkMessage values, each named by the bytes of its protobuf body.
Msgs == {<<>>, <<5>>}

VARIABLES
    status,      \* unit -> "running" | "stopped" | "panicked"
    stopQ,       \* unit -> the stop requests (reasons) not yet honoured
    exitReason,  \* unit -> the reason it stopped with, "none" while running
    sMsgQ,       \* Session's message inbox
    sSupQ,       \* Session's supervision inbox
    wInbox,      \* Writer's inbox of WriteObject requests
    wPc,         \* Writer's position in handle: idle | prefix | payload | flush
    wCur,        \* the WriteObject being handled
    wStream,     \* SessionWriterState.writer is Some
    wire,        \* the bytes the Writer has put on the outbound stream
    wlog,        \* the Writer's stream operations, in order
    sockWritable,\* the outbound stream reports write-readiness
    rInbox,      \* Reader's inbox of WaitForObject / ReadObject
    rPc,         \* Reader's position in handle: idle | reading
    rMsg,        \* the Reader message being handled
    rBuf,        \* read_n_bytes: the bytes collected so far (buf[..c_len])
    rStream,     \* SessionReaderState.reader is Some
    inb,         \* inbound bytes written by the peer and not yet read
    peerClosed,  \* the peer closed the inbound stream
    peerLog,     \* what the peer wrote, item by item
    readErrs,    \* non-EOF read errors raised so far
    rlog,        \* the Reader's ended reads and its passes through the
                 \* arm for a missing stream, in order
    handlerLog,  \* MessageReceived notifications the handler got, in order
    sends,       \* the messages of the Send requests the Session accepted, in order
    supLog,      \* the supervision events the Session handled, in order
    extStop,     \* the Session was asked to stop from outside
    unknownEvts, \* supervision events injected from unknown actors
    wCasts       \* the Sends the Session forwarded: their ids, whether the
                 \* Writer was open (running, no stop requested) and whether
                 \* the stream was not yet writable at that time

vars == <<status, stopQ, exitReason, sMsgQ, sSupQ, wInbox, wPc, wCur, wStream,
          wire, wlog, sockWritable, rInbox, rPc, rMsg, rBuf, rStream, inb,
          peerClosed, peerLog, readErrs, rlog, handlerLog, sends, supLog,
          extStop, unknownEvts, wCasts>>

sessionVars == <<sMsgQ, sSupQ, supLog, wCasts>>
writerVars == <<wInbox, wPc, wCur, wStream, wire, wlog>>
readerVars == <<rInbox, rPc, rMsg, rBuf, rStream, rlog>>
peerVars == <<inb, peerClosed, peerLog, readErrs>>
envVars == <<sockWritable, sends, extStop, unknownEvts>>

\* ------------------------------------------------------------ pure helpers
Min(a, b) == IF a < b THEN a ELSE b

RECURSIVE Flatten(_)
Flatten(ss) == IF ss = <<>> THEN <<>> ELSE Head(ss) \o Flatten(Tail(ss))

IsPrefix(s, t) == Len(s) <= Len(t) /\ SubSeq(t, 1, Len(s)) = s

\* Byte k (0 = least significant) of n.
RECURSIVE ByteOf(_, _)
ByteOf(n, k) == IF k = 0 THEN n % 256 ELSE ByteOf(n \div 256, k - 1)

\* (length as u64).to_be_bytes()
ToBeBytes(n) == [i \in 1..PrefixLen |-> ByteOf(n, PrefixLen - i)]

\* The length read as a little-endian number.
FromLeBytes(buf) ==
    IF buf[8] >= SignByte THEN -1
    ELSE IF \E i \in 4..8 : buf[i] # 0 THEN HugeLen
    ELSE (buf[3] * 256 + buf[2]) * 256 + buf[1]

\* u64::from_be_bytes(buf) followed by `length as usize` and vec![0u8; len]:
\* -1 when the allocation panics with a capacity overflow (len > isize::MAX),
\* HugeLen for every other length of 2^24 or more.
FromBeBytes(buf) ==
    IF buf[1] >= SignByte THEN -1
    ELSE IF \E i \in 1..5 : buf[i] # 0 THEN HugeLen
    ELSE (buf[6] * 256 + buf[7]) * 256 + buf[8]

\* msg.encode_length_delimited_to_vec(): a varint body length, then the body.
Encode(m) == <<Len(m)>> \o m

\* NetworkMessage::decode_length_delimited(bytes): the varint length must be
\* there and covered by the buffer, and the body must be a message.
DecodeOk(p) ==
    /\ p # <<>>
    /\ p[1] < SignByte
    /\ p[1] <= Len(p) - 1
    /\ SubSeq(p, 2, p[1] + 1) \in Msgs
Decode(p) == SubSeq(p, 2, p[1] + 1)

\* One frame on the wire: the 8-byte big-endian length, then the payload.
Frame(payload) == ToBeBytes(Len(payload)) \o payload

\* ------------------------------------------------------------- the runtime
WaitForObject == [t |-> "WaitForObject", len |-> 0]
ReadObject(n) == [t |-> "ReadObject", len |-> n]

Started(a) == [kind |-> "ActorStarted", actor |-> a, reason |-> "none"]
Panicked(a) == [kind |-> "ActorPanicked", actor |-> a, reason |-> "panic"]
Terminated(a, r) == [kind |-> "ActorTerminated", actor |-> a, reason |-> r]

\* A unit is between two messages: a stop request is honoured only there.
AtBoundary(u) ==
    CASE u = "W" -> wPc = "idle"
      [] u = "R" -> rPc = "idle"
      [] OTHER -> TRUE

\* A unit takes its next message: it runs, it is between two messages and no
\* stop request is pending (a stop request goes before every queued message).
Ready(u) == status[u] = "running" /\ AtBoundary(u) /\ stopQ[u] = <<>>

\* myself.stop(Some(reason)) called by a unit inside its own handler.
RequestStop(q, u, reason) == [q EXCEPT ![u] = Append(@, reason)]

\* The supervisor is told of a child's start, exit or panic while it runs.
NotifySupervisor(ev) == IF status["S"] = "running" THEN Append(sSupQ, ev) ELSE sSupQ

\* actor.cast(msg): queued while the target runs, dropped (an ignored error) otherwise.
Cast(inbox, u, msg) == IF status[u] = "running" THEN Append(inbox, msg) ELSE inbox

Init ==
    /\ status = [u \in Units |-> "running"]
    /\ stopQ = [u \in Units |-> <<>>]
    /\ exitReason = [u \in Units |-> "none"]
    /\ sMsgQ = <<>>
    /\ sSupQ = <<Started("W"), Started("R")>>
    /\ wInbox = <<>>
    /\ wPc = "idle"
    /\ wCur = [id |-> 0, msg |-> <<>>]
    /\ wStream = TRUE
    /\ wire = <<>>
    /\ wlog = <<>>
    /\ sockWritable = FALSE
    /\ rInbox = <<WaitForObject>>
    /\ rPc = "idle"
    /\ rMsg = WaitForObject
    /\ rBuf = <<>>
    /\ rStream = TRUE
    /\ inb = <<>>
    /\ peerClosed = FALSE
    /\ peerLog = <<>>
    /\ readErrs = 0
    /\ rlog = <<>>
    /\ handlerLog = <<>>
    /\ sends = <<>>
    /\ supLog = <<>>
    /\ extStop = FALSE
    /\ unknownEvts = 0
    /\ wCasts = <<>>

\* ------------------------------------------------------------ the Session
\* A supervisor that reacts to its two children only.
SupStopReasonKnownOnly(ev) ==
    CASE ev.kind = "ActorPanicked" /\ ev.actor \in Children -> "child_panic"
      [] ev.kind = "ActorTerminated" /\ ev.actor \in Children -> "child_terminate"
      [] OTHER -> "none"

\* A supervisor that stops for a child's panic only.
SupStopReasonPanicOnly(ev) ==
    CASE ev.kind = "ActorPanicked" -> "child_panic"
      [] OTHER -> "none"

\* The stop reason handle_supervisor_evt requests for an event, "none" when it
\* requests no stop.
SupStopReason(ev) ==
    CASE ev.kind = "ActorPanicked" -> "child_panic"
      [] ev.kind = "ActorTerminated" -> "child_terminate"
      [] OTHER -> "none"

\* Session::handle_supervisor_evt on the oldest supervision event.
SessionSupervise ==
    /\ Ready("S")
    /\ sSupQ # <<>>
    /\ LET ev == Head(sSupQ)
           reason == SupStopReason(ev)
       IN /\ sSupQ' = Tail(sSupQ)
          /\ supLog' = Append(supLog, ev)
          /\ stopQ' = IF reason = "none" THEN stopQ ELSE RequestStop(stopQ, "S", reason)
    /\ UNCHANGED <<status, exitReason, sMsgQ, wCasts, writerVars, readerVars,
                   peerVars, envVars, handlerLog>>

\* A Session that forwards each Send twice.
SessionSendTwice ==
    /\ Ready("S")
    /\ sSupQ = <<>>
    /\ sMsgQ # <<>>
    /\ Head(sMsgQ).t = "Send"
    /\ sMsgQ' = Tail(sMsgQ)
    /\ wInbox' = Cast(Cast(wInbox, "W", [id |-> Head(sMsgQ).id, msg |-> Head(sMsgQ).msg]),
                      "W", [id |-> Head(sMsgQ).id, msg |-> Head(sMsgQ).msg])
    /\ wCasts' = Append(wCasts, [id |-> Head(sMsgQ).id,
                                 open |-> status["W"] = "running" /\ stopQ["W"] = <<>>,
                                 early |-> ~sockWritable])
    /\ UNCHANGED <<status, stopQ, exitReason, sSupQ, supLog, wPc, wCur, wStream,
                   wire, wlog, readerVars, peerVars, envVars, handlerLog>>

\* A Session that treats a Send it cannot deliver to an open Writer as its own
\* failure.
SessionSendChecked ==
    /\ Ready("S")
    /\ sSupQ = <<>>
    /\ sMsgQ # <<>>
    /\ Head(sMsgQ).t = "Send"
    /\ sMsgQ' = Tail(sMsgQ)
    /\ wInbox' = Cast(wInbox, "W", [id |-> Head(sMsgQ).id, msg |-> Head(sMsgQ).msg])
    /\ wCasts' = Append(wCasts, [id |-> Head(sMsgQ).id,
                                 open |-> status["W"] = "running" /\ stopQ["W"] = <<>>,
                                 early |-> ~sockWritable])
    /\ stopQ' = IF status["W"] = "running" /\ stopQ["W"] = <<>>
                THEN stopQ ELSE RequestStop(stopQ, "S", "send_failed")
    /\ UNCHANGED <<status, exitReason, sSupQ, supLog, wPc, wCur, wStream,
                   wire, wlog, readerVars, peerVars, envVars, handlerLog>>

\* Session::handle, Send(msg): one WriteObject cast to the Writer.
SessionSend ==
    /\ Ready("S")
    /\ sSupQ = <<>>
    /\ sMsgQ # <<>>
    /\ Head(sMsgQ).t = "Send"
    /\ sMsgQ' = Tail(sMsgQ)
    /\ wInbox' = Cast(wInbox, "W", [id |-> Head(sMsgQ).id, msg |-> Head(sMsgQ).msg])
    /\ wCasts' = Append(wCasts, [id |-> Head(sMsgQ).id,
                                 open |-> status["W"] = "running" /\ stopQ["W"] = <<>>,
                                 early |-> ~sockWritable])
    /\ UNCHANGED <<status, stopQ, exitReason, sSupQ, supLog, wPc, wCur, wStream,
                   wire, wlog, readerVars, peerVars, envVars, handlerLog>>

\* Session::handle, ObjectAvailable(msg): one MessageReceived cast to the handler.
SessionObjectAvailable ==
    /\ Ready("S")
    /\ sSupQ = <<>>
    /\ sMsgQ # <<>>
    /\ Head(sMsgQ).t = "ObjectAvailable"
    /\ sMsgQ' = Tail(sMsgQ)
    /\ handlerLog' = Append(handlerLog, Head(sMsgQ).msg)
    /\ UNCHANGED <<status, stopQ, exitReason, sSupQ, supLog, wCasts, writerVars,
                   readerVars, peerVars, envVars>>

\* The Session honours a stop request: post_stop logs, the linked children are
\* asked to stop, the queued messages are dropped.
SessionStop ==
    /\ status["S"] = "running"
    /\ stopQ["S"] # <<>>
    /\ status' = [status EXCEPT !["S"] = "stopped"]
    /\ exitReason' = [exitReason EXCEPT !["S"] = Head(stopQ["S"])]
    /\ stopQ' = [u \in Units |->
                    IF u = "S" THEN <<>>
                    ELSE IF status[u] = "running" THEN Append(stopQ[u], "supervisor_stopped")
                    ELSE stopQ[u]]
    /\ sMsgQ' = <<>>
    /\ sSupQ' = <<>>
    /\ UNCHANGED <<supLog, wCasts, writerVars, readerVars, peerVars, envVars,
                   handlerLog>>

\* ------------------------------------------------------------- the Writer
WEvent(op, id, n, ok) == [op |-> op, id |-> id, n |-> n, ok |-> ok]

\* The length prefix of the message being handled.
LengthBytes == ToBeBytes(Len(Encode(wCur.msg)))

\* A payload encoded without its length delimiter (encode_to_vec).
EncodedDataBare == wCur.msg

\* The payload of the message being handled.
EncodedData == Encode(wCur.msg)

\* The byte counts a failing write_all of n bytes may have written.
PartialCounts(n) == 0..Min(n - 1, MaxPartial)

\* A unit's handler panics: its state (the stream half with it) is dropped
\* without post_stop, and the supervisor gets ActorPanicked.
WriterPanics ==
    /\ status' = [status EXCEPT !["W"] = "panicked"]
    /\ exitReason' = [exitReason EXCEPT !["W"] = "panic"]
    /\ stopQ' = [stopQ EXCEPT !["W"] = <<>>]
    /\ wStream' = FALSE
    /\ wInbox' = <<>>
    /\ wPc' = "idle"
    /\ sSupQ' = NotifySupervisor(Panicked("W"))

\* A Writer that drops a request it takes while the stream is not yet writable.
WriterTakeIfWritable ==
    /\ Ready("W")
    /\ wInbox # <<>>
    /\ wInbox' = Tail(wInbox)
    /\ wCur' = Head(wInbox)
    /\ wPc' = IF wStream /\ sockWritable THEN "prefix" ELSE "idle"
    /\ UNCHANGED <<status, stopQ, exitReason, sessionVars, wStream, wire, wlog,
                   readerVars, peerVars, envVars, handlerLog>>

\* SessionWriter::handle takes WriteObject(msg): with the stream present it
\* goes on to writable().await and the prefix write, otherwise it is a no-op.
WriterTake ==
    /\ Ready("W")
    /\ wInbox # <<>>
    /\ wInbox' = Tail(wInbox)
    /\ wCur' = Head(wInbox)
    /\ wPc' = IF wStream THEN "prefix" ELSE "idle"
    /\ UNCHANGED <<status, stopQ, exitReason, sessionVars, wStream, wire, wlog,
                   readerVars, peerVars, envVars, handlerLog>>

\* stream.writable().await fails: unwrap() panics.
WriterWritableFail ==
    /\ status["W"] = "running"
    /\ wPc = "prefix"
    /\ wlog' = Append(wlog, WEvent("writable", wCur.id, 0, FALSE))
    /\ WriterPanics
    /\ UNCHANGED <<sMsgQ, supLog, wCasts, wCur, wire, readerVars, peerVars, envVars, handlerLog>>

\* The stream is writable and write_all(&length_bytes) succeeds.
WriterPrefixOk ==
    /\ status["W"] = "running"
    /\ wPc = "prefix"
    /\ sockWritable
    /\ wire' = wire \o LengthBytes
    /\ wlog' = Append(wlog, WEvent("prefix", wCur.id, PrefixLen, TRUE))
    /\ wPc' = "payload"
    /\ UNCHANGED <<status, stopQ, exitReason, sessionVars, wInbox, wCur, wStream,
                   readerVars, peerVars, envVars, handlerLog>>

\* A Writer that treats a failed prefix write like a failed payload write.
WriterPrefixFailStops ==
    /\ status["W"] = "running"
    /\ wPc = "prefix"
    /\ sockWritable
    /\ \E k \in PartialCounts(PrefixLen) :
          /\ wire' = wire \o SubSeq(LengthBytes, 1, k)
          /\ wlog' = Append(wlog, WEvent("prefix", wCur.id, k, FALSE))
    /\ stopQ' = RequestStop(stopQ, "W", "channel_closed")
    /\ wPc' = "idle"
    /\ UNCHANGED <<status, exitReason, sessionVars, wInbox, wCur, wStream,
                   readerVars, peerVars, envVars, handlerLog>>

\* A Writer that drops its write half on a failed prefix write and goes on.
WriterPrefixFailDropsWriter ==
    /\ status["W"] = "running"
    /\ wPc = "prefix"
    /\ sockWritable
    /\ \E k \in PartialCounts(PrefixLen) :
          /\ wire' = wire \o SubSeq(LengthBytes, 1, k)
          /\ wlog' = Append(wlog, WEvent("prefix", wCur.id, k, FALSE))
    /\ wStream' = FALSE
    /\ wPc' = "idle"
    /\ UNCHANGED <<status, stopQ, exitReason, sessionVars, wInbox, wCur,
                   readerVars, peerVars, envVars, handlerLog>>

\* write_all(&length_bytes) fails after k bytes: a warning, and the handler
\* returns Ok without writing the payload, flushing or stopping.
WriterPrefixFail ==
    /\ status["W"] = "running"
    /\ wPc = "prefix"
    /\ sockWritable
    /\ \E k \in PartialCounts(PrefixLen) :
          /\ wire' = wire \o SubSeq(LengthBytes, 1, k)
          /\ wlog' = Append(wlog, WEvent("prefix", wCur.id, k, FALSE))
    /\ wPc' = "idle"
    /\ UNCHANGED <<status, stopQ, exitReason, sessionVars, wInbox, wCur, wStream,
                   readerVars, peerVars, envVars, handlerLog>>

\* write_all(&encoded_data) succeeds.
WriterPayloadOk ==
    /\ status["W"] = "running"
    /\ wPc = "payload"
    /\ wire' = wire \o EncodedData
    /\ wlog' = Append(wlog, WEvent("payload", wCur.id, Len(EncodedData), TRUE))
    /\ wPc' = "flush"
    /\ UNCHANGED <<status, stopQ, exitReason, sessionVars, wInbox, wCur, wStream,
                   readerVars, peerVars, envVars, handlerLog>>

\* A Writer that only logs a failed payload write, as it does for the prefix.
WriterPayloadFailContinues ==
    /\ status["W"] = "running"
    /\ wPc = "payload"
    /\ \E k \in PartialCounts(Len(EncodedData)) :
          /\ wire' = wire \o SubSeq(EncodedData, 1, k)
          /\ wlog' = Append(wlog, WEvent("payload", wCur.id, k, FALSE))
    /\ wPc' = "idle"
    /\ UNCHANGED <<status, stopQ, exitReason, sessionVars, wInbox, wCur, wStream,
                   readerVars, peerVars, envVars, handlerLog>>

\* write_all(&encoded_data) fails after k bytes: myself.stop("channel_closed")
\* and return, without flushing.
WriterPayloadFail ==
    /\ status["W"] = "running"
    /\ wPc = "payload"
    /\ \E k \in PartialCounts(Len(EncodedData)) :
          /\ wire' = wire \o SubSeq(EncodedData, 1, k)
          /\ wlog' = Append(wlog, WEvent("payload", wCur.id, k, FALSE))
    /\ stopQ' = RequestStop(stopQ, "W", "channel_closed")
    /\ wPc' = "idle"
    /\ UNCHANGED <<status, exitReason, sessionVars, wInbox, wCur, wStream,
                   readerVars, peerVars, envVars, handlerLog>>

\* stream.flush().await succeeds: the handler returns Ok.
WriterFlushOk ==
    /\ status["W"] = "running"
    /\ wPc = "flush"
    /\ wlog' = Append(wlog, WEvent("flush", wCur.id, 0, TRUE))
    /\ wPc' = "idle"
    /\ UNCHANGED <<status, stopQ, exitReason, sessionVars, wInbox, wCur, wStream,
                   wire, readerVars, peerVars, envVars, handlerLog>>

\* A Writer that treats a failed flush like a failed payload write.
WriterFlushFailStops ==
    /\ status["W"] = "running"
    /\ wPc = "flush"
    /\ wlog' = Append(wlog, WEvent("flush", wCur.id, 0, FALSE))
    /\ stopQ' = RequestStop(stopQ, "W", "channel_closed")
    /\ wPc' = "idle"
    /\ UNCHANGED <<status, exitReason, sessionVars, wInbox, wCur, wStream, wire,
                   readerVars, peerVars, envVars, handlerLog>>

\* stream.flush().await fails: unwrap() panics.
WriterFlushFail ==
    /\ status["W"] = "running"
    /\ wPc = "flush"
    /\ wlog' = Append(wlog, WEvent("flush", wCur.id, 0, FALSE))
    /\ WriterPanics
    /\ UNCHANGED <<sMsgQ, supLog, wCasts, wCur, wire, readerVars, peerVars, envVars, handlerLog>>

\* The Writer honours a stop request between two messages: post_stop drops the
\* write half, the queued requests are dropped, the Session gets ActorTerminated.
WriterStop ==
    /\ status["W"] = "running"
    /\ AtBoundary("W")
    /\ stopQ["W"] # <<>>
    /\ status' = [status EXCEPT !["W"] = "stopped"]
    /\ exitReason' = [exitReason EXCEPT !["W"] = Head(stopQ["W"])]
    /\ stopQ' = [stopQ EXCEPT !["W"] = <<>>]
    /\ wStream' = FALSE
    /\ wInbox' = <<>>
    /\ sSupQ' = NotifySupervisor(Terminated("W", Head(stopQ["W"])))
    /\ UNCHANGED <<sMsgQ, supLog, wCasts, wPc, wCur, wire, wlog, readerVars, peerVars,
                   envVars, handlerLog>>

\* ------------------------------------------------------------- the Reader
REvent(m, res, buf) == [t |-> m.t, len |-> m.len, res |-> res, buf |-> buf]

\* The count read_n_bytes was called with: 8 in WaitForObject, L in ReadObject(L).
NeedLen == IF rMsg.t = "WaitForObject" THEN PrefixLen ELSE rMsg.len

\* The Reader's handler panics: its state is dropped without post_stop.
ReaderPanics ==
    /\ status' = [status EXCEPT !["R"] = "panicked"]
    /\ exitReason' = [exitReason EXCEPT !["R"] = "panic"]
    /\ stopQ' = [stopQ EXCEPT !["R"] = <<>>]
    /\ rStream' = FALSE
    /\ rInbox' = <<>>
    /\ rPc' = "idle"
    /\ sSupQ' = NotifySupervisor(Panicked("R"))

\* SessionReader::handle takes its next message. With the stream present it
\* enters read_n_bytes (8 bytes for WaitForObject, L for ReadObject(L));
\* without it, it only casts WaitForObject to itself (logged as "nostream").
ReaderTake ==
    /\ Ready("R")
    /\ rInbox # <<>>
    /\ Head(rInbox).len # -1 \/ ~rStream
    /\ rMsg' = Head(rInbox)
    /\ rBuf' = <<>>
    /\ IF rStream
       THEN /\ rPc' = "reading"
            /\ rInbox' = Tail(rInbox)
            /\ rlog' = rlog
       ELSE /\ rPc' = "idle"
            /\ rInbox' = Append(Tail(rInbox), WaitForObject)
            /\ rlog' = Append(rlog, REvent(Head(rInbox), "nostream", <<>>))
    /\ UNCHANGED <<status, stopQ, exitReason, sessionVars, writerVars, rStream,
                   peerVars, envVars, handlerLog>>

\* ReadObject(L) with L above isize::MAX: vec![0u8; len] panics.
ReaderTakeOverflow ==
    /\ Ready("R")
    /\ rInbox # <<>>
    /\ Head(rInbox).len = -1
    /\ rStream
    /\ rMsg' = Head(rInbox)
    /\ ReaderPanics
    /\ UNCHANGED <<sMsgQ, supLog, wCasts, writerVars, rBuf, rlog, peerVars, envVars, handlerLog>>

\* A Reader that closes the connection on a payload that does not decode.
ReaderOnOkStrict(buf) ==
    /\ rlog' = Append(rlog, REvent(rMsg, "ok", buf))
    /\ rPc' = "idle"
    /\ rBuf' = <<>>
    /\ IF rMsg.t = "WaitForObject"
       THEN /\ rInbox' = Append(rInbox, ReadObject(FromBeBytes(buf)))
            /\ sMsgQ' = sMsgQ
            /\ UNCHANGED <<stopQ, rStream>>
       ELSE /\ rInbox' = Append(rInbox, WaitForObject)
            /\ IF DecodeOk(buf)
               THEN /\ sMsgQ' = Cast(sMsgQ, "S", [t |-> "ObjectAvailable", id |-> 0,
                                                  msg |-> Decode(buf)])
                    /\ UNCHANGED <<stopQ, rStream>>
               ELSE /\ sMsgQ' = sMsgQ
                    /\ rStream' = FALSE
                    /\ stopQ' = RequestStop(stopQ, "R", "channel_closed")
    /\ UNCHANGED <<status, exitReason>>

\* A Reader whose WaitForObject arm does not return after casting ReadObject
\* and runs into the cast of WaitForObject as well.
ReaderOnOkNoReturn(buf) ==
    /\ rlog' = Append(rlog, REvent(rMsg, "ok", buf))
    /\ rPc' = "idle"
    /\ rBuf' = <<>>
    /\ IF rMsg.t = "WaitForObject"
       THEN /\ rInbox' = Append(Append(rInbox, ReadObject(FromBeBytes(buf))), WaitForObject)
            /\ sMsgQ' = sMsgQ
       ELSE /\ rInbox' = Append(rInbox, WaitForObject)
            /\ sMsgQ' = IF DecodeOk(buf)
                        THEN Cast(sMsgQ, "S", [t |-> "ObjectAvailable", id |-> 0,
                                               msg |-> Decode(buf)])
                        ELSE sMsgQ
    /\ UNCHANGED <<status, stopQ, exitReason, rStream>>

\* read_n_bytes returned Ok(buf). WaitForObject: the length is decoded and
\* ReadObject(length) cast to the Reader itself. ReadObject: the payload is
\* decoded and, when it decodes, ObjectAvailable is cast to the Session; in
\* both decode outcomes WaitForObject is cast next.
ReaderOnOk(buf) ==
    /\ rlog' = Append(rlog, REvent(rMsg, "ok", buf))
    /\ rPc' = "idle"
    /\ rBuf' = <<>>
    /\ IF rMsg.t = "WaitForObject"
       THEN /\ rInbox' = Append(rInbox, ReadObject(FromBeBytes(buf)))
            /\ sMsgQ' = sMsgQ
       ELSE /\ rInbox' = Append(rInbox, WaitForObject)
            /\ sMsgQ' = IF DecodeOk(buf)
                        THEN Cast(sMsgQ, "S", [t |-> "ObjectAvailable", id |-> 0,
                                               msg |-> Decode(buf)])
                        ELSE sMsgQ
    /\ UNCHANGED <<status, stopQ, exitReason, rStream>>

\* A Reader that drops the read half on EOF and goes on without stopping.
ReaderOnEofNoStop ==
    /\ rlog' = Append(rlog, REvent(rMsg, "eof", rBuf))
    /\ rPc' = "idle"
    /\ rBuf' = <<>>
    /\ rStream' = FALSE
    /\ rInbox' = Append(rInbox, WaitForObject)
    /\ UNCHANGED <<status, stopQ, exitReason, sMsgQ>>

\* A Reader whose WaitForObject arm drops the read half on EOF without asking
\* to stop.
ReaderOnEofStopInPayloadOnly ==
    /\ rlog' = Append(rlog, REvent(rMsg, "eof", rBuf))
    /\ rPc' = "idle"
    /\ rBuf' = <<>>
    /\ rStream' = FALSE
    /\ stopQ' = IF rMsg.t = "WaitForObject" THEN stopQ
                ELSE RequestStop(stopQ, "R", "channel_closed")
    /\ rInbox' = IF rMsg.t = "WaitForObject" THEN Append(rInbox, WaitForObject) ELSE rInbox
    /\ UNCHANGED <<status, exitReason, sMsgQ>>

\* read_n_bytes returned UnexpectedEof: the read half is dropped and the Reader
\* asks to stop with "channel_closed". The WaitForObject arm then falls through
\* to the cast of WaitForObject; the ReadObject arm returns.
ReaderOnEof ==
    /\ rlog' = Append(rlog, REvent(rMsg, "eof", rBuf))
    /\ rPc' = "idle"
    /\ rBuf' = <<>>
    /\ rStream' = FALSE
    /\ stopQ' = RequestStop(stopQ, "R", "channel_closed")
    /\ rInbox' = IF rMsg.t = "WaitForObject" THEN Append(rInbox, WaitForObject) ELSE rInbox
    /\ UNCHANGED <<status, exitReason, sMsgQ>>

\* read_n_bytes returned another error: both arms cast WaitForObject.
ReaderOnErr ==
    /\ rlog' = Append(rlog, REvent(rMsg, "err", rBuf))
    /\ rPc' = "idle"
    /\ rBuf' = <<>>
    /\ rInbox' = Append(rInbox, WaitForObject)
    /\ UNCHANGED <<status, stopQ, exitReason, sMsgQ, rStream>>

\* read_n_bytes with len = 0: once readable() resolves the loop is skipped.
ReaderReadNothing ==
    /\ status["R"] = "running"
    /\ rPc = "reading"
    /\ NeedLen = 0
    /\ inb # <<>> \/ peerClosed
    /\ ReaderOnOk(<<>>)
    /\ UNCHANGED <<sSupQ, supLog, wCasts, writerVars, rMsg, peerVars, envVars, handlerLog>>

\* A read that takes whatever is pending and keeps the first len bytes of it.
ReaderReadChunkOverread ==
    /\ status["R"] = "running"
    /\ rPc = "reading"
    /\ NeedLen > 0
    /\ inb # <<>>
    /\ \E n \in 1..Len(inb) :
          LET all == rBuf \o SubSeq(inb, 1, n)
              buf == SubSeq(all, 1, Min(Len(all), NeedLen)) IN
          /\ inb' = SubSeq(inb, n + 1, Len(inb))
          /\ IF Len(buf) = NeedLen
             THEN ReaderOnOk(buf)
             ELSE /\ rBuf' = buf
                  /\ UNCHANGED <<status, stopQ, exitReason, sMsgQ, rInbox, rPc,
                                 rStream, rlog>>
    /\ UNCHANGED <<sSupQ, supLog, wCasts, writerVars, rMsg, peerClosed, peerLog, readErrs,
                   envVars, handlerLog>>

\* One stream.read(): n > 0 of the pending bytes, at most what is missing.
ReaderReadChunk ==
    /\ status["R"] = "running"
    /\ rPc = "reading"
    /\ NeedLen > 0
    /\ inb # <<>>
    /\ \E n \in 1..Min(Len(inb), NeedLen - Len(rBuf)) :
          LET buf == rBuf \o SubSeq(inb, 1, n) IN
          /\ inb' = SubSeq(inb, n + 1, Len(inb))
          /\ IF Len(buf) = NeedLen
             THEN ReaderOnOk(buf)
             ELSE /\ rBuf' = buf
                  /\ UNCHANGED <<status, stopQ, exitReason, sMsgQ, rInbox, rPc,
                                 rStream, rlog>>
    /\ UNCHANGED <<sSupQ, supLog, wCasts, writerVars, rMsg, peerClosed, peerLog, readErrs,
                   envVars, handlerLog>>

\* A read_n_bytes that reports the end of the stream as a generic error.
ReaderReadEofAsError ==
    /\ status["R"] = "running"
    /\ rPc = "reading"
    /\ NeedLen > 0
    /\ inb = <<>>
    /\ peerClosed
    /\ ReaderOnErr
    /\ UNCHANGED <<sSupQ, supLog, wCasts, writerVars, rMsg, peerVars, envVars, handlerLog>>

\* stream.read() returns 0 before len bytes were collected: UnexpectedEof.
ReaderReadEof ==
    /\ status["R"] = "running"
    /\ rPc = "reading"
    /\ NeedLen > 0
    /\ inb = <<>>
    /\ peerClosed
    /\ ReaderOnEof
    /\ UNCHANGED <<sSupQ, supLog, wCasts, writerVars, rMsg, peerVars, envVars, handlerLog>>

\* readable() or read() fails with an error that is not EOF.
ReaderReadErr ==
    /\ status["R"] = "running"
    /\ rPc = "reading"
    /\ readErrs < MaxReadErrs
    /\ readErrs' = readErrs + 1
    /\ ReaderOnErr
    /\ UNCHANGED <<sSupQ, supLog, wCasts, writerVars, rMsg, inb, peerClosed, peerLog,
                   envVars, handlerLog>>

\* The Reader honours a stop request between two messages: post_stop drops the
\* read half, the queued steps are dropped, the Session gets ActorTerminated.
ReaderStop ==
    /\ status["R"] = "running"
    /\ AtBoundary("R")
    /\ stopQ["R"] # <<>>
    /\ status' = [status EXCEPT !["R"] = "stopped"]
    /\ exitReason' = [exitReason EXCEPT !["R"] = Head(stopQ["R"])]
    /\ stopQ' = [stopQ EXCEPT !["R"] = <<>>]
    /\ rStream' = FALSE
    /\ rInbox' = <<>>
    /\ sSupQ' = NotifySupervisor(Terminated("R", Head(stopQ["R"])))
    /\ UNCHANGED <<sMsgQ, supLog, wCasts, writerVars, rPc, rMsg, rBuf, rlog, peerVars,
                   envVars, handlerLog>>

\* --------------------------------------------------------- the environment
\* What the peer may write: a well-formed frame, a frame whose payload does
\* not decode (a varint that overruns the payload, an empty payload), a length
\* prefix above isize::MAX, or the first bytes of a frame.
GoodItems == {[kind |-> "good", bytes |-> Frame(Encode(m))] : m \in Msgs}
BadItems == {[kind |-> "bad", bytes |-> Frame(<<3>>)], [kind |-> "bad", bytes |-> Frame(<<>>)]}
HugeItems == {[kind |-> "huge", bytes |-> <<SignByte, 0, 0, 0, 0, 0, 0, 0>>]}
PartItems == {[kind |-> "part", bytes |-> SubSeq(Frame(Encode(<<5>>)), 1, k)] : k \in {3, 9}}
PeerItems == GoodItems \cup BadItems \cup HugeItems \cup PartItems

\* The peer writes one item on the inbound stream.
PeerWrite(items, limit) ==
    /\ ~peerClosed
    /\ rStream
    /\ Len(peerLog) < limit
    /\ \E it \in items :
          /\ inb' = inb \o it.bytes
          /\ peerLog' = Append(peerLog, it)
    /\ UNCHANGED <<status, stopQ, exitReason, sessionVars, writerVars, readerVars,
                   peerClosed, readErrs, envVars, handlerLog>>

\* The peer closes the inbound stream.
PeerClose ==
    /\ ~peerClosed
    /\ rStream
    /\ peerClosed' = TRUE
    /\ UNCHANGED <<status, stopQ, exitReason, sessionVars, writerVars, readerVars,
                   inb, peerLog, readErrs, envVars, handlerLog>>

\* A caller casts Send(msg) to the running Session.
ClientSend(limit) ==
    /\ status["S"] = "running"
    /\ Len(sends) < limit
    /\ \E m \in Msgs :
          /\ sends' = Append(sends, m)
          /\ sMsgQ' = Append(sMsgQ, [t |-> "Send", id |-> Len(sends) + 1, msg |-> m])
    /\ UNCHANGED <<status, stopQ, exitReason, sSupQ, supLog, wCasts, writerVars,
                   readerVars, peerVars, sockWritable, extStop, unknownEvts, handlerLog>>

\* The outbound stream becomes writable.
BecomeWritable ==
    /\ status["W"] = "running"
    /\ ~sockWritable
    /\ sockWritable' = TRUE
    /\ UNCHANGED <<status, stopQ, exitReason, sessionVars, writerVars, readerVars,
                   peerVars, sends, extStop, unknownEvts, handlerLog>>

\* The Session is asked to stop from outside (its owner or its supervisor).
ExternalStop ==
    /\ status["S"] = "running"
    /\ ~extStop
    /\ extStop' = TRUE
    /\ stopQ' = RequestStop(stopQ, "S", "external")
    /\ UNCHANGED <<status, exitReason, sessionVars, writerVars, readerVars,
                   peerVars, sockWritable, sends, unknownEvts, handlerLog>>

\* A supervision event about an actor that is neither the reader nor the writer.
UnknownEvents == {Started("X"), Panicked("X"), Terminated("X", "none")}

UnknownSupervisionEvent ==
    /\ status["S"] = "running"
    /\ unknownEvts < MaxUnknownEvents
    /\ unknownEvts' = unknownEvts + 1
    /\ \E ev \in UnknownEvents : sSupQ' = Append(sSupQ, ev)
    /\ UNCHANGED <<status, stopQ, exitReason, sMsgQ, supLog, wCasts, writerVars,
                   readerVars, peerVars, sockWritable, sends, extStop, handlerLog>>

\* ------------------------------------------------------ the specifications
SessionStep ==
    \/ SessionSupervise
    \/ SessionSend
    \/ SessionObjectAvailable
    \/ SessionStop

\* The Session where nothing arrives on the inbound stream.
SessionOutStep ==
    \/ SessionSupervise
    \/ SessionSend
    \/ SessionStop

\* The Session where no client sends.
SessionInStep ==
    \/ SessionSupervise
    \/ SessionObjectAvailable
    \/ SessionStop

WriterStep ==
    \/ WriterTake
    \/ WriterPrefixOk
    \/ WriterPayloadOk
    \/ WriterFlushOk
    \/ WriterStop

WriterFault ==
    \/ WriterWritableFail
    \/ WriterPrefixFail
    \/ WriterPayloadFail
    \/ WriterFlushFail

ReaderStep ==
    \/ ReaderTake
    \/ ReaderTakeOverflow
    \/ ReaderReadNothing
    \/ ReaderReadChunk
    \/ ReaderReadEof
    \/ ReaderStop

\* The items that decide the triad's lifecycle: a frame that is delivered, a
\* frame of no bytes, a prefix that makes the Reader panic.
LifeItems ==
    {[kind |-> "good", bytes |-> Frame(Encode(<<5>>))], [kind |-> "bad", bytes |-> Frame(<<>>)]}
        \cup HugeItems

\* The triad's lifecycle: every way a unit stops or panicks, a few inputs.
Next ==
    \/ SessionStep
    \/ WriterStep
    \/ WriterFault
    \/ ReaderStep
    \/ PeerWrite(LifeItems, FewPeerFrames)
    \/ PeerClose
    \/ ClientSend(FewSends)
    \/ BecomeWritable
    \/ ExternalStop
    \/ UnknownSupervisionEvent

Spec == Init /\ [][Next]_vars

\* The outbound direction: many Sends, every Writer fault, and the teardown
\* that the close of the inbound stream starts.
NextOut ==
    \/ SessionOutStep
    \/ WriterStep
    \/ WriterFault
    \/ ReaderTake
    \/ ReaderReadEof
    \/ ReaderStop
    \/ PeerClose
    \/ ClientSend(MaxSends)
    \/ BecomeWritable

SpecOut == Init /\ [][NextOut]_vars

\* The inbound direction: every item the peer may write, read errors, and the
\* teardown that follows the Reader's exit.
NextIn ==
    \/ SessionInStep
    \/ ReaderStep
    \/ ReaderReadErr
    \/ WriterStop
    \/ PeerWrite(PeerItems, MaxPeerFrames)
    \/ PeerClose

SpecIn == Init /\ [][NextIn]_vars

\* Both directions through the Session: Sends and inbound frames side by side,
\* and the payload failure that leaves the Writer with a pending stop.
NextRelay ==
    \/ SessionStep
    \/ WriterStep
    \/ WriterPayloadFail
    \/ ReaderTake
    \/ ReaderReadChunk
    \/ ReaderStop
    \/ PeerWrite(GoodItems, FewPeerFrames)
    \/ ClientSend(MaxSends)
    \/ BecomeWritable

SpecRelay == Init /\ [][NextRelay]_vars

\* The scheduler runs every unit that can take a step: a queued message, a
\* pending stop, a read with bytes or EOF at hand, a write on a writable
\* stream. Nothing makes the peer write or close, the stream become writable,
\* or a fault happen.
Fairness == WF_vars(SessionStep) /\ WF_vars(WriterStep) /\ WF_vars(ReaderStep)

FairSpec == Spec /\ Fairness
FairSpecOut == SpecOut /\ Fairness
FairSpecIn == SpecIn /\ Fairness

\* ------------------------------------------------------------------ claims
Down(u) == status[u] # "running"
AnyDown == \E u \in Units : Down(u)
AllDown == \A u \in Units : Down(u)
AllOpen == \A u \in Units : status[u] = "running" /\ stopQ[u] = <<>>

\* A child is inside an IO wait that only the environment can end: the Writer
\* waits for write-readiness, the Reader for bytes or the close of the stream.
Suspended(c) ==
    IF c = "W" THEN wPc = "prefix" /\ ~sockWritable
    ELSE rPc = "reading" /\ inb = <<>> /\ ~peerClosed

C2_SupervisionStops ==
    [][Len(supLog') = Len(supLog) + 1 =>
         LET ev == Head(sSupQ) IN
         /\ supLog' = Append(supLog, ev)
         /\ status' = status
         /\ ev.kind = "ActorPanicked" =>
               stopQ' = [stopQ EXCEPT !["S"] = Append(@, "child_panic")]
         /\ ev.kind = "ActorTerminated" =>
               stopQ' = [stopQ EXCEPT !["S"] = Append(@, "child_terminate")]
         /\ ev.kind \notin {"ActorPanicked", "ActorTerminated"} => stopQ' = stopQ]_vars

\* The Session let an ActorStarted event pass, then handled the exit of an
\* unknown actor and stopped with "child_terminate".
C2_Witness ==
    /\ \E i \in 1..Len(supLog) : supLog[i].kind = "ActorStarted"
    /\ supLog # <<>>
    /\ supLog[Len(supLog)] = Terminated("X", "none")
    /\ exitReason["S"] = "child_terminate"

\* ------------------------------------------------- claims on the outbound side
\* The bytes one Writer operation put on the wire, from the Sends alone.
EventBytes(e) ==
    CASE e.op = "prefix" -> SubSeq(ToBeBytes(Len(Encode(sends[e.id]))), 1, e.n)
      [] e.op = "payload" -> SubSeq(Encode(sends[e.id]), 1, e.n)
      [] OTHER -> <<>>

WireOf(log) == Flatten([i \in 1..Len(log) |-> EventBytes(log[i])])

\* The indexes of the Writer's operations that wrote (or tried to write) bytes.
Writes == {i \in 1..Len(wlog) : wlog[i].op \in {"prefix", "payload"}}

\* The Writer wrote the whole frame of Send number id, flushed or not.
FrameWritten(id) ==
    \E i \in 1..(Len(wlog) - 1) :
        /\ wlog[i] = WEvent("prefix", id, PrefixLen, TRUE)
        /\ wlog[i + 1] = WEvent("payload", id, Len(Encode(sends[id])), TRUE)

\* C3: the wire holds exactly the bytes of the Writer's writes in the order it
\* made them; the Sends are written in the order they were accepted, none
\* twice; and a payload is written right after the complete prefix of the same
\* Send, so that two frames written in full one after the other are adjacent
\* and whole on the wire.
C3_OutboundFifo ==
    /\ wire = WireOf(wlog)
    /\ \A i, j \in Writes :
          /\ i < j => wlog[i].id <= wlog[j].id
          /\ (i < j /\ wlog[i].op = wlog[j].op) => wlog[i].id < wlog[j].id
    /\ \A j \in Writes :
          wlog[j].op = "payload" =>
              j > 1 /\ wlog[j - 1] = WEvent("prefix", wlog[j].id, PrefixLen, TRUE)
    /\ \A i \in 1..Len(wCasts) : wCasts[i].id = i

\* Two Sends were accepted and the wire is the frame of the first followed by
\* the frame of the second, two different frames.
C3_Witness ==
    /\ Len(sends) >= 2
    /\ sends[1] # sends[2]
    /\ wire = Frame(Encode(sends[1])) \o Frame(Encode(sends[2]))

\* C4: every complete length prefix the Writer wrote is the big-endian length
\* L of its message's payload, and what follows it on the wire is that payload
\* and nothing else: the next write is the payload of the same message, its
\* bytes are the first bytes of the payload, all L of them unless the write
\* failed, and after a failed payload write no other write follows.
C4_FrameIntegrity ==
    \A i \in Writes :
        (wlog[i].op = "prefix" /\ wlog[i].ok) =>
            LET id == wlog[i].id
                payload == Encode(sends[id])
                off == Len(WireOf(SubSeq(wlog, 1, i)))
                rest == SubSeq(wire, off + 1, Len(wire))
            IN /\ off >= PrefixLen
               /\ SubSeq(wire, off - PrefixLen + 1, off) = ToBeBytes(Len(payload))
               /\ IF Len(rest) >= Len(payload)
                  THEN SubSeq(rest, 1, Len(payload)) = payload
                  ELSE wire = SubSeq(wire, 1, off) \o SubSeq(payload, 1, Len(rest))
               /\ i < Len(wlog) =>
                     /\ wlog[i + 1].op = "payload"
                     /\ wlog[i + 1].id = id
                     /\ wlog[i + 1].ok => wlog[i + 1].n = Len(payload)
                     /\ ~wlog[i + 1].ok => \A j \in Writes : j <= i + 1

\* A frame was written in full after an earlier prefix write had failed.
C4_Witness ==
    \E i, j \in Writes :
        /\ i < j
        /\ wlog[i].op = "prefix" /\ ~wlog[i].ok /\ wlog[i].n > 0
        /\ wlog[j].op = "payload" /\ wlog[j].ok /\ wlog[j].n > 1

\* The Writer operations that failed, by kind.
FailedOps(op) == {i \in 1..Len(wlog) : wlog[i].op = op /\ ~wlog[i].ok}

\* C9: after a failed prefix write the Writer does nothing more for that
\* message (no payload byte, no flush); and while failed prefix writes are all
\* that went wrong (no other Writer fault, the inbound stream still open), the
\* three units run with no stop requested and the Writer holds its stream.
C9_PrefixFailureIsLocal ==
    /\ \A i \in FailedOps("prefix") : \A j \in 1..Len(wlog) : wlog[j].id = wlog[i].id => j <= i
    /\ (FailedOps("payload") \cup FailedOps("flush") \cup FailedOps("writable") = {}
          /\ ~peerClosed)
         => AllOpen /\ wStream

\* The prefix write of the first Send failed, the second Send was then written
\* in full and flushed, and the three units still run.
C9_Witness ==
    /\ Len(wlog) = 4
    /\ wlog[1].op = "prefix" /\ ~wlog[1].ok /\ wlog[1].id = 1
    /\ wlog[4] = WEvent("flush", 2, 0, TRUE)
    /\ FrameWritten(2)
    /\ AllOpen

\* C10: a failed payload write is the Writer's last operation on the stream
\* (no flush, nothing for later requests), the Writer then has a stop request
\* "channel_closed" pending or is no longer running, and the Session
\* eventually is down.
C10_PayloadFailureIsFatal ==
    /\ [](\A i \in FailedOps("payload") :
             /\ i = Len(wlog)
             /\ wlog[i - 1] = WEvent("prefix", wlog[i].id, PrefixLen, TRUE)
             /\ Down("W") \/ (\E k \in 1..Len(stopQ["W"]) : stopQ["W"][k] = "channel_closed"))
    /\ (FailedOps("payload") # {}) ~> Down("S")

\* A payload write failed while a later request was queued; the Writer stopped
\* with "channel_closed", the Session with "child_terminate", and the later
\* request was never written.
C10_Witness ==
    /\ FailedOps("payload") # {}
    /\ Len(wCasts) >= 2
    /\ wlog[Len(wlog)].id = 1
    /\ exitReason["W"] = "channel_closed"
    /\ exitReason["S"] = "child_terminate"
    /\ status["R"] = "stopped"

\* -------------------------------------------------------------------- C8
\* The Send number id was forwarded to the open Writer.
Accepted(id) == \E i \in 1..Len(wCasts) : wCasts[i].id = id /\ wCasts[i].open

\* The Writer still holds the request: queued, or being handled.
Pending(id) ==
    \/ \E i \in 1..Len(wInbox) : wInbox[i].id = id
    \/ wPc # "idle" /\ wCur.id = id

AnyWriteError == \E i \in 1..Len(wlog) : ~wlog[i].ok

\* The Send number id was forwarded before the stream was writable.
Early(id) == \E i \in 1..Len(wCasts) : wCasts[i].id = id /\ wCasts[i].early

\* C8 as stated, over the runs that have ended for the request: a Send
\* forwarded to the open Writer before the stream was writable has its
\* complete frame on the wire once the stream is writable, no write error has
\* occurred and the Writer no longer holds the request.
C8_NoSendDropped ==
    \A id \in 1..Len(sends) :
        (Accepted(id) /\ Early(id) /\ sockWritable /\ ~AnyWriteError /\ ~Pending(id))
            => FrameWritten(id)

\* C8, amended: a Send forwarded to the open Writer, once the stream is
\* writable, eventually has its complete frame on the wire, unless a write of
\* that message fails or the Writer is asked to stop or panics first.
C8_NoSendDroppedWhileOpen ==
    \A id \in 1..MaxSends :
        (id <= Len(sends) /\ Accepted(id) /\ sockWritable)
            ~> \/ FrameWritten(id)
               \/ \E i \in 1..Len(wlog) : wlog[i].id = id /\ ~wlog[i].ok
               \/ Down("W")
               \/ stopQ["W"] # <<>>

\* A Send was forwarded to the Writer before the stream was writable, the
\* stream became writable, and the frame is on the wire, flushed.
C8_Witness ==
    /\ sockWritable
    /\ wCasts = <<[id |-> 1, open |-> TRUE, early |-> TRUE]>>
    /\ Len(wlog) = 3
    /\ wire = Frame(Encode(<<5>>))
    /\ wlog[3] = WEvent("flush", 1, 0, TRUE)
    /\ AllOpen

\* -------------------------------------------------- claims on the inbound side
\* The payload reads the Reader completed, in order.
PayloadReads == SelectSeq(rlog, LAMBDA e : e.t = "ReadObject" /\ e.res = "ok")

\* The payload of the frame the peer wrote.
PayloadOf(item) == SubSeq(item.bytes, PrefixLen + 1, Len(item.bytes))

\* The messages of the first k frames the peer wrote, those that decode.
RECURSIVE MessagesOf(_, _)
MessagesOf(log, k) ==
    IF k = 0 THEN <<>>
    ELSE MessagesOf(log, k - 1) \o
         (IF DecodeOk(PayloadOf(log[k])) THEN <<Decode(PayloadOf(log[k]))>> ELSE <<>>)

\* What the Reader handed on: delivered to the handler, or queued for it.
HandedOn == handlerLog \o [i \in 1..Len(sMsgQ) |-> sMsgQ[i].msg]

\* Each completed payload read returned the payload of the frame of its rank.
ReadsFollowWire ==
    /\ Len(PayloadReads) <= Len(peerLog)
    /\ \A i \in 1..Len(PayloadReads) : PayloadReads[i].buf = PayloadOf(peerLog[i])

\* The peer has written well-formed frames only, and no read has failed.
WellFormedInbound == (\A i \in 1..Len(peerLog) : peerLog[i].kind = "good") /\ readErrs = 0

\* C5: while the peer has written well-formed frames only and no read failed,
\* each payload read returns the payload of the next frame on the wire; the
\* handler has received a prefix of the frames' messages, in wire order; while
\* the Session runs, the messages handed on are those of the frames read, one
\* each; unless the peer closed the stream the three units stay open; and the
\* handler eventually receives the message of every frame written, as long as
\* the stream stays open.
C5_InboundOrder ==
    /\ [](WellFormedInbound =>
            /\ ReadsFollowWire
            /\ IsPrefix(handlerLog, MessagesOf(peerLog, Len(peerLog)))
            /\ Len(MessagesOf(peerLog, Len(peerLog))) = Len(peerLog)
            /\ status["S"] = "running" => HandedOn = MessagesOf(peerLog, Len(PayloadReads))
            /\ ~peerClosed => AllOpen /\ rStream /\ wStream)
    /\ \A i \in 1..MaxPeerFrames :
          (Len(peerLog) >= i /\ WellFormedInbound)
              ~> (Len(handlerLog) >= i \/ ~WellFormedInbound \/ peerClosed)

\* The handler received the messages of two different frames, in wire order,
\* and the three units are open.
C5_Witness ==
    /\ Len(peerLog) = 2
    /\ \A i \in 1..2 : peerLog[i].kind = "good"
    /\ peerLog[1] # peerLog[2]
    /\ handlerLog = <<Decode(PayloadOf(peerLog[1])), Decode(PayloadOf(peerLog[2]))>>
    /\ readErrs = 0
    /\ AllOpen

\* The peer has written whole frames only, decodable or not, and no read has failed.
WholeFramesInbound ==
    (\A i \in 1..Len(peerLog) : peerLog[i].kind \in {"good", "bad"}) /\ readErrs = 0

\* C6: while the peer has written whole frames only, decodable or not, and no
\* read failed: each payload read returns the payload of the next frame; while
\* the Session runs, the messages handed on are those of the decodable frames
\* read, one each and in order, and nothing for a frame that does not decode;
\* after a payload read the Reader's next step is WaitForObject; unless the
\* peer closed the stream the three units stay open; and the decodable frames
\* among those written are eventually all delivered, whatever undecodable
\* frames lie between them, as long as the stream stays open.
C6_MalformedFrameDropped ==
    /\ [](WholeFramesInbound =>
            /\ ReadsFollowWire
            /\ status["S"] = "running" => HandedOn = MessagesOf(peerLog, Len(PayloadReads))
            /\ (rlog # <<>> /\ rlog[Len(rlog)].t = "ReadObject" /\ rPc = "idle" /\ ~Down("R"))
                  => rInbox = <<WaitForObject>>
            /\ ~peerClosed => AllOpen /\ rStream)
    /\ \A i \in 1..MaxPeerFrames :
          (Len(peerLog) >= i /\ WholeFramesInbound)
              ~> \/ Len(handlerLog) >= Len(MessagesOf(peerLog, Min(i, Len(peerLog))))
                 \/ ~WholeFramesInbound
                 \/ peerClosed

\* A frame that does not decode was read and dropped, the well-formed frame
\* after it was delivered once, and the three units are open.
C6_Witness ==
    /\ Len(peerLog) = 2
    /\ peerLog[1].kind = "bad" /\ PayloadOf(peerLog[1]) # <<>>
    /\ peerLog[2].kind = "good"
    /\ Len(PayloadReads) = 2
    /\ handlerLog = <<Decode(PayloadOf(peerLog[2]))>>
    /\ sMsgQ = <<>>
    /\ readErrs = 0
    /\ AllOpen

\* A read of the Reader ended in UnexpectedEof.
SawEof == \E i \in 1..Len(rlog) : rlog[i].res = "eof"

\* C7: once a read ended in EOF, in WaitForObject or in ReadObject(L), the
\* Reader holds no stream and has asked to stop with "channel_closed", which
\* is the reason it stops with; and when the stream is closed with fewer bytes
\* than the pending read needs, the Reader eventually is stopped with
\* "channel_closed" and the Session is down.
C7_EofTeardown ==
    /\ [](SawEof =>
            /\ ~rStream
            /\ IF Down("R") THEN status["R"] = "stopped" /\ exitReason["R"] = "channel_closed"
               ELSE stopQ["R"] = <<"channel_closed">>)
    /\ (status["R"] = "running" /\ rPc = "reading" /\ NeedLen > 0 /\ inb = <<>> /\ peerClosed)
          ~> (SawEof /\ status["R"] = "stopped" /\ exitReason["R"] = "channel_closed"
                /\ Down("S"))

\* The peer closed the stream inside a payload: the payload read ended in EOF
\* with part of the bytes, the Reader stopped with "channel_closed" and the
\* Session and the Writer stopped after it.
C7_Witness ==
    /\ rlog # <<>>
    /\ rlog[Len(rlog)].t = "ReadObject"
    /\ rlog[Len(rlog)].res = "eof"
    /\ rlog[Len(rlog)].buf # <<>>
    /\ ~rStream
    /\ exitReason["R"] = "channel_closed"
    /\ exitReason["S"] = "child_terminate"
    /\ AllDown

\* ------------------------------------------------- claims on the read loop
\* A read_n_bytes call of the Reader ends with an error that is not EOF.
ReadFails == readErrs' = readErrs + 1

\* C11: a step in which a read fails with an error other than EOF leaves the
\* Reader running with no stop requested and its read half in place, and the
\* one message it queues for itself is the state it was in: WaitForObject after
\* WaitForObject, ReadObject(L) after ReadObject(L).
C11_RetrySameState ==
    [][ReadFails =>
          /\ status'["R"] = "running"
          /\ stopQ'["R"] = <<>>
          /\ rStream'
          /\ rInbox' = <<rMsg>>]_vars

\* -------------------------------------------------------------------- C12
\* The bytes the peer has written on the inbound stream, in order.
StreamWritten == Flatten([i \in 1..Len(peerLog) |-> peerLog[i].bytes])

\* The bytes the Reader's ended read_n_bytes calls took from the stream.
ConsumedOf(log) == Flatten([i \in 1..Len(log) |-> log[i].buf])

\* The count an ended read_n_bytes call was made with.
RequestedLen(e) == IF e.t = "WaitForObject" THEN PrefixLen ELSE e.len

\* C12: whatever the chunks the stream hands out, the bytes taken by the ended
\* reads, then those of the read in progress, then the bytes still pending are
\* the bytes the peer wrote, in order: each read_n_bytes(N) that succeeds
\* returns the N bytes that were next on the stream and takes no byte of what
\* follows; a read in progress holds fewer than N bytes; and once N > 0 bytes
\* are at hand the read ends.
C12_ExactBytes ==
    /\ [](/\ ConsumedOf(rlog) \o rBuf \o inb = StreamWritten
          /\ \A i \in 1..Len(rlog) :
                rlog[i].res = "ok" => Len(rlog[i].buf) = RequestedLen(rlog[i])
          /\ (rPc = "reading" /\ NeedLen > 0) => Len(rBuf) < NeedLen
          /\ rPc = "idle" => rBuf = <<>>)
    /\ (rPc = "reading" /\ NeedLen > 0 /\ Len(rBuf) + Len(inb) >= NeedLen) ~> (rPc = "idle")

\* A payload read of two bytes has taken one byte although more were pending,
\* after a prefix read that ended.
C12_Witness ==
    /\ rPc = "reading"
    /\ rMsg = ReadObject(2)
    /\ Len(rBuf) = 1
    /\ inb # <<>>
    /\ Len(rlog) = 1
    /\ rlog[1].res = "ok"

\* -------------------------------------------------------------------- C13
\* A read_n_bytes call of the Reader ends in this step.
ReadEnds == rPc = "reading" /\ Len(rlog') = Len(rlog) + 1

\* The stream is at its end: nothing pending and the peer has closed it.
AtEof == inb = <<>> /\ peerClosed

\* C13: when a read_n_bytes(N) call ends, then: if the stream was at its end
\* with N > 0 and fewer than N bytes collected, and no other failure happened,
\* the outcome is UnexpectedEof (the Reader drops its read half and asks to
\* stop); a successful outcome carries exactly N bytes; a failure other than
\* the end of the stream is the generic error, never EOF; and EOF is reported
\* in no other case.
C13_EofDistinct ==
    [][ReadEnds =>
          LET e == rlog'[Len(rlog')] IN
          /\ (NeedLen > 0 /\ AtEof /\ ~ReadFails) =>
                 (e.res = "eof" /\ ~rStream' /\ stopQ'["R"] = <<"channel_closed">>)
          /\ e.res = "ok" => Len(e.buf) = NeedLen
          /\ ReadFails => (e.res = "err" /\ rStream' /\ stopQ'["R"] = <<>>)
          /\ e.res = "eof" => (NeedLen > 0 /\ AtEof /\ ~ReadFails /\ Len(e.buf) < NeedLen)]_vars

\* A read ended with EOF after part of its bytes had been collected, and
\* another read ended with a generic error.
C13_Witness ==
    /\ \E i \in 1..Len(rlog) : rlog[i].res = "eof" /\ rlog[i].buf # <<>>
    /\ \E i \in 1..Len(rlog) : rlog[i].res = "err"

\* -------------------------------------------------------------------- C14
\* The Reader is inside read_n_bytes(stream, 0).
ZeroLengthRead == status["R"] = "running" /\ rPc = "reading" /\ NeedLen = 0

\* C14: a read_n_bytes call with N = 0 ends, whatever the state of the stream,
\* and when it ends its outcome is success with an empty buffer and the
\* stream's pending bytes are untouched.
C14_ZeroLengthTrivial ==
    /\ [][(ZeroLengthRead /\ ReadEnds) =>
             /\ rlog'[Len(rlog')].res = "ok"
             /\ rlog'[Len(rlog')].buf = <<>>
             /\ inb' = inb]_vars
    /\ ZeroLengthRead ~> (rPc = "idle")

\* -------------------------------------------------------------------- C15
\* A unit is open: it runs and no stop has been requested of it.
Open(u) == status[u] = "running" /\ stopQ[u] = <<>>

\* C15: the Writer's write half and the Reader's read half are present while
\* their unit is open; once absent they are never present again (so each goes
\* from present to absent at most once); the step that drops one leaves the
\* unit no longer open (a stop requested, or stopped, or panicked); and while
\* the half is absent the unit does no IO: nothing is written or logged by the
\* Writer, nothing read or logged by the Reader, and neither is inside a
\* stream operation.
C15_CapabilityDiscipline ==
    /\ []((Open("W") => wStream) /\ (Open("R") => rStream))
    /\ [][(wStream' => wStream) /\ (rStream' => rStream)]_vars
    /\ [][((wStream /\ ~wStream') => ~Open("W")') /\ ((rStream /\ ~rStream') => ~Open("R")')]_vars
    /\ [][(~wStream => (wire' = wire /\ wlog' = wlog /\ wPc' = "idle"))
          /\ (~rStream => (inb' = inb /\ rlog' = rlog /\ rPc' = "idle"))]_vars

\* The Reader has dropped its read half on EOF and still runs with its stop
\* pending, while the Writer is open with its write half and has written.
C15_Witness ==
    /\ ~rStream
    /\ status["R"] = "running"
    /\ stopQ["R"] = <<"channel_closed">>
    /\ Open("W")
    /\ wStream
    /\ wire # <<>>

\* -------------------------------------------------------------------- C16
\* The Session handles a Send, or an ObjectAvailable, in this step.
SendHandled == Len(wCasts') = Len(wCasts) + 1
ObjectHandled == Len(handlerLog') = Len(handlerLog) + 1

\* The Session and its children are as they were: status, pending stops and
\* exit reasons.
LifecycleUnchanged == status' = status /\ stopQ' = stopQ /\ exitReason' = exitReason

C17_EofTerminal ==
    [][SawEof =>
          /\ rlog' = rlog
          /\ rPc' = "idle"
          /\ rMsg' = rMsg
          /\ rInbox' = rInbox \/ (rInbox' = <<>> /\ status'["R"] = "stopped")]_vars

\* The prefix read ended in EOF: the read half is gone, the stop is pending,
\* and the WaitForObject the arm cast on its way out is in the inbox.
C17_Witness ==
    /\ rlog # <<>>
    /\ rlog[Len(rlog)].t = "WaitForObject"
    /\ rlog[Len(rlog)].res = "eof"
    /\ status["R"] = "running"
    /\ stopQ["R"] = <<"channel_closed">>
    /\ rInbox = <<WaitForObject>>
    /\ ~rStream

\* -------------------------------------------------------------------- C18
\* The wait for write-readiness or a flush has failed.
UnwrapFailed == FailedOps("writable") # {} \/ FailedOps("flush") # {}

\* The Session has handled this supervision event.
Handled(ev) == \E i \in 1..Len(supLog) : supLog[i] = ev

\* The Session stops, or has stopped, with this reason.
SessionStopsWith(reason) ==
    IF Down("S") THEN exitReason["S"] = reason ELSE stopQ["S"] = <<reason>>

\* C18: the Writer is panicked exactly when its wait for write-readiness or a
\* flush has failed, and it then never stops with "channel_closed"; a Session
\* that has handled the Writer's panic stops with "child_panic"; a Session that
\* has handled the Writer's termination stops with "child_terminate", and then
\* the Writer stopped with "channel_closed" after a failed payload write and
\* no other of its operations failed that way; and once the Writer is
\* panicked the Session eventually is down, with "child_panic" unless the
\* Reader's exit reached it first.
C18_UnwrapFailuresPanic ==
    /\ [](/\ UnwrapFailed <=> status["W"] = "panicked"
          /\ UnwrapFailed => exitReason["W"] = "panic"
          /\ Handled(Panicked("W")) => SessionStopsWith("child_panic")
          /\ \A r \in {"channel_closed", "supervisor_stopped"} :
                Handled(Terminated("W", r)) =>
                    /\ r = "channel_closed"
                    /\ SessionStopsWith("child_terminate")
                    /\ FailedOps("payload") # {}
                    /\ ~UnwrapFailed)
    /\ (status["W"] = "panicked")
          ~> (Down("S") /\ (exitReason["S"] = "child_panic"
                              \/ Handled(Terminated("R", "channel_closed"))))

\* A frame was written in full and its flush failed: the Writer is panicked
\* and the Session stopped with "child_panic".
C18_Witness ==
    /\ FailedOps("flush") # {}
    /\ FrameWritten(1)
    /\ status["W"] = "panicked"
    /\ Handled(Panicked("W"))
    /\ exitReason["S"] = "child_panic"

\* -------------------------------------------------------------------- C19
\* C19: the Reader's inbox holds at most one message, a WaitForObject or a
\* ReadObject, and none while a step is being handled; before any step has
\* been handled it holds the WaitForObject of pre_start; a step adds at most
\* one message; and a queued ReadObject(L) follows a WaitForObject step whose
\* read of the 8-byte prefix succeeded, L being the value of that prefix.
C19_SinglePendingStep ==
    /\ [](/\ Len(rInbox) <= 1
          /\ rPc = "reading" => rInbox = <<>>
          /\ \A i \in 1..Len(rInbox) : rInbox[i].t \in {"WaitForObject", "ReadObject"}
          /\ (rlog = <<>> /\ rPc = "idle" /\ Open("R")) => rInbox = <<WaitForObject>>
          /\ \A i \in 1..Len(rInbox) :
                rInbox[i].t = "ReadObject" =>
                    /\ rlog # <<>>
                    /\ rlog[Len(rlog)].t = "WaitForObject"
                    /\ rlog[Len(rlog)].res = "ok"
                    /\ Len(rlog[Len(rlog)].buf) = PrefixLen
                    /\ rInbox[i].len = FromBeBytes(rlog[Len(rlog)].buf))
    /\ [][Len(rInbox') <= Len(rInbox) + 1]_vars

\* After a frame was read and handed on, the next prefix has been read and
\* the ReadObject for its length is the one message in the Reader's inbox.
C19_Witness ==
    /\ rInbox = <<ReadObject(2)>>
    /\ Len(rlog) = 3
    /\ rlog[3].res = "ok"
    /\ rPc = "idle"
    /\ Open("R")

\* -------------------------------------------------------------------- C20
\* Where on the inbound stream step k of the Reader began: the count of the
\* bytes the steps before it took.
OffsetOf(k) == Len(ConsumedOf(SubSeq(rlog, 1, k - 1)))

\* Where on the inbound stream frame i of the peer begins.
FrameStart(i) == Len(Flatten([j \in 1..(i - 1) |-> peerLog[j].bytes]))

\* C20: while the peer has written whole frames only, every 8 bytes the
\* Reader has read as a length are the length prefix of one of those frames,
\* read from where that frame begins, and every payload it has read for
\* decoding is that frame's payload, read from where the payload begins.
C20_FrameAlignment ==
    (\A i \in 1..Len(peerLog) : peerLog[i].kind \in {"good", "bad"}) =>
        \A k \in 1..Len(rlog) :
            rlog[k].res = "ok" =>
                \E i \in 1..Len(peerLog) :
                    IF rlog[k].t = "WaitForObject"
                    THEN /\ OffsetOf(k) = FrameStart(i)
                         /\ rlog[k].buf = SubSeq(peerLog[i].bytes, 1, PrefixLen)
                    ELSE /\ OffsetOf(k) = FrameStart(i) + PrefixLen
                         /\ rlog[k].buf = PayloadOf(peerLog[i])

====
